---- MODULE Spec2Model ----
(***************************************************************************)
(* Model of Scripts/data_quality_validator.py: the class                   *)
(* ComprehensiveDataQualityValidator (five check passes over a DataFrame,  *)
(* the scorer in run_all_validations, export_validation_report) and the    *)
(* script's main().                                                        *)
(*                                                                         *)
(* Numbers.  A value rounded to 2 decimals is held as an integer number of *)
(* hundredths (12.34 is 1234).  A dimension score is held in units of      *)
(* 1/(200*n) for a frame of n records (ScoreUnit): 100 - k/n*100 and       *)
(* 100 - 0.5*k/n*100 are whole numbers of such units.  NaN is the result   *)
(* of numpy's 0/0.  Floating point is modelled by exact arithmetic; round  *)
(* is Python's round-half-even.                                            *)
(*                                                                         *)
(* Inputs.  Datasets are drawn from RowPool and ColumnSets: numeric        *)
(* columns hold integers or nulls, the date column holds strings or nulls. *)
(* The configuration is the default one.  datetime.now() never goes back.  *)
(***************************************************************************)
EXTENDS Integers, Sequences, FiniteSets, TLC

\* Largest number of records of a dataset.
MaxRows == 2
\* Largest number of calls a client makes on one validator.
MaxCalls == 2

-----------------------------------------------------------------------------
(* Generic helpers *)

Range(s) == {s[i] : i \in 1..Len(s)}

Max(a, b) == IF a >= b THEN a ELSE b

RECURSIVE SumSeq(_)
SumSeq(s) == IF s = <<>> THEN 0 ELSE Head(s) + SumSeq(Tail(s))

\* A mapping with one key set (a dict item assignment).
Put(m, k, v) == [x \in DOMAIN m \cup {k} |-> IF x = k THEN v ELSE m[x]]

\* The distinct elements of s in order of first appearance (Series.unique()).
RECURSIVE Unique(_)
Unique(s) ==
    IF s = <<>> THEN <<>>
    ELSE LET init == Unique(SubSeq(s, 1, Len(s) - 1))
             x == s[Len(s)]
         IN IF x \in Range(init) THEN init ELSE Append(init, x)

\* Not-a-number: what numpy returns for 0/0.  No score and no count equals it.
NaN == -1

\* a / b rounded to the nearest integer, ties to the even one (b > 0).
RoundDiv(a, b) ==
    LET q == a \div b
        r == a % b
    IN IF 2 * r < b THEN q
       ELSE IF 2 * r > b THEN q + 1
       ELSE IF q % 2 = 0 THEN q ELSE q + 1

\* round((num / den) * 100, 2) in hundredths, for Python ints (den = 0 raises
\* ZeroDivisionError: the callers test for it first).
Pct2(num, den) == RoundDiv(num * 10000, den)

\* round(float((num / den) * 100), 2) in hundredths where num is a numpy
\* integer: 0/0 is nan, and round(nan, 2) is nan.
NpPct2(num, den) == IF den = 0 THEN NaN ELSE RoundDiv(num * 10000, den)

-----------------------------------------------------------------------------
(* The dataset *)

\* A cell is <<>> (null) or <<v>>.
Null == <<>>
isnull(cell) == cell = Null
notna(cell) == cell # Null

\* The columns the loader is expected to deliver, in file order.
ExpectedColumns ==
    << "date", "patient_id", "patient_age", "patient_waittime",
       "patient_sat_score", "patient_gender", "patient_race",
       "department_referral", "patient_admin_flag" >>

\* What pd.to_datetime makes of a date string: a day number, or no entry when
\* the string does not parse.
DateValue == [x \in {"2024-01-05", "2031-01-01"} |->
                 IF x = "2024-01-05" THEN 1 ELSE 3]

\* The instants datetime.now() can return (day numbers, non-decreasing).
Instants == {2, 3}

Row(d, id, age, wait, sat, g, race, dept, flag) ==
    [date |-> d, patient_id |-> id, patient_age |-> age,
     patient_waittime |-> wait, patient_sat_score |-> sat,
     patient_gender |-> g, patient_race |-> race,
     department_referral |-> dept, patient_admin_flag |-> flag]

\* The records datasets are drawn from: a clean one; one with nulls; one with
\* every violation (above a range and below one); one with a future date; one
\* on the range bounds (the lowest age, the highest wait and score), with the
\* advisory combinations, sharing id and date with the first.
RowPool ==
    << Row(<<"2024-01-05">>, <<1>>, <<40>>, <<30>>, <<5>>, <<"M">>, <<"A">>,
           <<"General">>, <<"True">>),
       Row(Null, <<1>>, Null, <<30>>, Null, Null, <<"A">>, Null, <<"True">>),
       Row(<<"not-a-date">>, <<2>>, <<121>>, <<-1>>, <<11>>, <<"X">>, <<"B">>,
           <<"General">>, <<"Yes">>),
       Row(<<"2031-01-01">>, <<1>>, <<40>>, <<30>>, <<5>>, <<"M">>, <<"A">>,
           <<"General">>, <<"True">>),
       Row(<<"2024-01-05">>, <<1>>, <<0>>, <<300>>, <<10>>, <<"F">>, <<"A">>,
           <<"Gastroenterology">>, <<"False">>) >>

\* The column sets datasets are drawn from: every expected column, and the
\* expected columns less some.
ColumnSets ==
    { Range(ExpectedColumns),
      Range(ExpectedColumns) \ {"patient_id"},
      Range(ExpectedColumns) \ {"date", "patient_age", "patient_gender"} }

\* A DataFrame: its column labels in order and its records.
Frame(cols, picks) ==
    [columns |-> SelectSeq(ExpectedColumns, LAMBDA c : c \in cols),
     rows |-> [i \in 1..Len(picks) |-> [c \in cols |-> RowPool[picks[i]][c]]]]

\* The datasets are drawn up to the order of their records.
Picks ==
    UNION {{p \in [1..n -> 1..Len(RowPool)] : \A i \in 1..(n - 1) : p[i] <= p[i + 1]} :
              n \in 0..MaxRows}

Datasets == {Frame(cols, p) : cols \in ColumnSets, p \in Picks}

len(d) == Len(d.rows)
HasCol(d, c) == c \in Range(d.columns)
\* The column c of d as a sequence of cells.
Col(d, c) == [i \in 1..len(d) |-> d.rows[i][c]]
\* The non-null values of column c.
Values(d, c) ==
    LET cells == SelectSeq(Col(d, c), notna)
    IN [i \in 1..Len(cells) |-> cells[i][1]]

\* _default_config()
DefaultConfig ==
    [critical_columns |-> {"date", "patient_id", "patient_age", "patient_waittime"},
     numeric_columns |-> <<"patient_age", "patient_waittime", "patient_sat_score">>,
     categorical_columns |-> <<"patient_gender", "patient_race", "department_referral">>,
     expected_ranges |-> << [col |-> "patient_age", min |-> 0, max |-> 120],
                            [col |-> "patient_waittime", min |-> 0, max |-> 300],
                            [col |-> "patient_sat_score", min |-> 0, max |-> 10] >>,
     valid_values |-> << [col |-> "patient_gender", values |-> {"M", "F"}],
                         [col |-> "patient_admin_flag", values |-> {"True", "False"}],
                         [col |-> "Moment", values |-> {"AM", "PM"}] >>]

-----------------------------------------------------------------------------
(* State *)

VARIABLES
    heap,                \* object id -> DataFrame: the caller's, self.df, self.original_df
    self_df,             \* the object self.df refers to
    validation_results,  \* self.validation_results: dimension -> record
    recommendations,     \* self.recommendations
    now,                 \* the last instant datetime.now() returned
    pc,                  \* "idle", or the step run_all_validations executes next
    calls,               \* how many calls the client has made
    invoked,             \* the methods the client has called
    last,                \* the client's last completed call and what it returned
    exports,             \* what each report writer was given to write
    main_pc,             \* where main() is
    main_result,         \* what main() returned
    master               \* run_all_analytics.main(): where it is, what it has done

vars == << heap, self_df, validation_results, recommendations, now, pc, calls,
           invoked, last, exports, main_pc, main_result, master >>

-----------------------------------------------------------------------------
(* The check passes.  Each takes the frame self.df, the results mapping and   *)
(* the recommendation list and gives what the call leaves behind:             *)
(* [df, results, recs, raised], raised being "none" or the exception that     *)
(* ended the call (what was done before the raise stays done).                *)

Rec(sev, cat, subject, count, detail) ==
    [severity |-> sev, category |-> cat, subject |-> subject, count |-> count,
     detail |-> detail]

Effect(d, res, recs, raised) ==
    [df |-> d, results |-> res, recs |-> recs, raised |-> raised]

\* self.df[col].isnull().sum()
MissingCount(d, c) == Cardinality({i \in 1..len(d) : isnull(d.rows[i][c])})

\* self.df.isnull().sum().sum()
MissingCells(d) ==
    SumSeq([k \in 1..Len(d.columns) |-> MissingCount(d, d.columns[k])])

\* round(float(((total_cells - missing_cells) / total_cells) * 100), 2)
CompletenessScore(d) ==
    LET total_cells == len(d) * Len(d.columns)
    IN NpPct2(total_cells - MissingCells(d), total_cells)

\* Variant of CompletenessRecs: one recommendation for every missing cell of a
\* critical column.
CompletenessRecsPerCell(d, cfg) ==
    LET flagged == SelectSeq(d.columns, LAMBDA c : c \in cfg.critical_columns)
        n == len(d)
        cells == [k \in 1..(Len(flagged) * n) |->
                     [col |-> flagged[((k - 1) \div n) + 1], row |-> ((k - 1) % n) + 1]]
        missing == SelectSeq(cells, LAMBDA x : isnull(d.rows[x.row][x.col]))
    IN [k \in 1..Len(missing) |->
           Rec("HIGH", "Completeness", missing[k].col, MissingCount(d, missing[k].col),
               <<>>)]

\* The recommendations appended by the column loop, in column order.
CompletenessRecs(d, cfg) ==
    LET flagged == SelectSeq(d.columns,
                       LAMBDA c : c \in cfg.critical_columns /\ MissingCount(d, c) > 0)
    IN [k \in 1..Len(flagged) |->
           Rec("HIGH", "Completeness", flagged[k], MissingCount(d, flagged[k]), <<>>)]

CompletenessRecord(d, cfg) ==
    LET n == len(d)
        with_missing ==
            Cardinality({i \in 1..n : \E c \in Range(d.columns) : isnull(d.rows[i][c])})
    IN [total_records |-> n,
        total_columns |-> Len(d.columns),
        missing_by_column |->
            [c \in Range(d.columns) |->
                [count |-> MissingCount(d, c),
                 percentage |-> NpPct2(MissingCount(d, c), n),
                 is_critical |-> c \in cfg.critical_columns]],
        missing_by_record |->
            [records_with_missing |-> with_missing,
             percentage |-> NpPct2(with_missing, n)],
        completeness_score |-> CompletenessScore(d)]

check_completeness(d, cfg, res, recs) ==
    Effect(d, Put(res, "completeness", CompletenessRecord(d, cfg)),
           recs \o CompletenessRecs(d, cfg), "none")

\* Variant of ExactDuplicates: the date column is left out of the comparison.
ExactDuplicatesButDate(d) ==
    {i \in 1..len(d) : \E j \in 1..len(d) :
        /\ j # i
        /\ \A c \in Range(d.columns) \ {"date"} : d.rows[j][c] = d.rows[i][c]}

\* self.df[self.df.duplicated(keep=False)]: every record equal in every column
\* to another one (nulls equal nulls).
ExactDuplicates(d) ==
    {i \in 1..len(d) : \E j \in 1..len(d) : j # i /\ d.rows[j] = d.rows[i]}

\* Variant of IdDateDuplicates: subset=['patient_id'], the date left out.
IdDuplicates(d) ==
    {i \in 1..len(d) : \E j \in 1..len(d) :
        /\ j # i
        /\ d.rows[j]["patient_id"] = d.rows[i]["patient_id"]}

\* self.df[self.df.duplicated(subset=['patient_id', 'date'], keep=False)]
IdDateDuplicates(d) ==
    {i \in 1..len(d) : \E j \in 1..len(d) :
        /\ j # i
        /\ d.rows[j]["patient_id"] = d.rows[i]["patient_id"]
        /\ d.rows[j]["date"] = d.rows[i]["date"]}

UniqueConstraintColumns ==
    <<"patient_id", "patient_gender", "patient_race", "department_referral">>

UniqueConstraints(d) ==
    [c \in {x \in Range(UniqueConstraintColumns) : HasCol(d, x)} |->
        [unique_values |-> Cardinality(Range(Values(d, c))),
         total_records |-> len(d),
         \* round(unique_count / total_count, 4), in ten-thousandths
         uniqueness_ratio |-> RoundDiv(Cardinality(Range(Values(d, c))) * 10000, len(d))]]

check_uniqueness(d, res, recs) ==
    LET n == len(d)
        exact == Cardinality(ExactDuplicates(d))
        recs1 == IF exact > 0
                 THEN Append(recs, Rec("MEDIUM", "Uniqueness", "exact_duplicates", exact, <<>>))
                 ELSE recs
    IN IF n = 0 THEN Effect(d, res, recs, "ZeroDivisionError")
       ELSE IF ~(HasCol(d, "patient_id") /\ HasCol(d, "date"))
       THEN Effect(d, res, recs1, "KeyError")
       ELSE
         LET id_date == Cardinality(IdDateDuplicates(d))
             recs2 == IF id_date > 0
                      THEN Append(recs1, Rec("HIGH", "Uniqueness", "id_date_duplicates",
                                             id_date, <<>>))
                      ELSE recs1
             record ==
                 [duplicate_records |->
                     [exact_duplicates |->
                         [count |-> exact, percentage |-> Pct2(exact, n)],
                      id_date_duplicates |->
                         [count |-> id_date, percentage |-> Pct2(id_date, n)]],
                  unique_constraints |-> UniqueConstraints(d)]
         IN Effect(d, Put(res, "uniqueness", record), recs2, "none")

\* Variant of RangeViolations: the bounds themselves are violations
\* (<= and >= for < and >).
RangeViolationsExclusive(d, c, lo, hi) ==
    Cardinality({i \in 1..len(d) :
        /\ notna(d.rows[i][c])
        /\ (d.rows[i][c][1] <= lo \/ d.rows[i][c][1] >= hi)})

\* Variant of RangeViolations: a null cell is outside every range.
RangeViolationsNullCounted(d, c, lo, hi) ==
    Cardinality({i \in 1..len(d) :
        \/ isnull(d.rows[i][c])
        \/ d.rows[i][c][1] < lo
        \/ d.rows[i][c][1] > hi})

\* The records of column c outside [lo, hi]; a null compares false.
RangeViolations(d, c, lo, hi) ==
    Cardinality({i \in 1..len(d) :
        /\ notna(d.rows[i][c])
        /\ (d.rows[i][c][1] < lo \/ d.rows[i][c][1] > hi)})

\* The non-null cells of column c that are not permitted values, in row order.
InvalidCells(d, c, permitted) ==
    SelectSeq(Col(d, c), LAMBDA cell : notna(cell) /\ cell[1] \notin permitted)

\* pd.to_datetime(self.df['date']) raises iff some non-null value does not parse.
DateParses(cell) == isnull(cell) \/ cell[1] \in DOMAIN DateValue

check_validity(d, cfg, res, recs) ==
    LET n == len(d)
        ranges == SelectSeq(cfg.expected_ranges, LAMBDA r : HasCol(d, r.col))
        valids == SelectSeq(cfg.valid_values, LAMBDA v : HasCol(d, v.col))
        rv(r) == RangeViolations(d, r.col, r.min, r.max)
        vv(v) == InvalidCells(d, v.col, v.values)
        bad_ranges == SelectSeq(ranges, LAMBDA r : rv(r) > 0)
        bad_values == SelectSeq(valids, LAMBDA v : Len(vv(v)) > 0)
        range_recs == [k \in 1..Len(bad_ranges) |->
            Rec("MEDIUM", "Validity", bad_ranges[k].col, rv(bad_ranges[k]),
                <<bad_ranges[k].min, bad_ranges[k].max>>)]
        value_recs == [k \in 1..Len(bad_values) |->
            Rec("MEDIUM", "Validity", bad_values[k].col, Len(vv(bad_values[k])), <<>>)]
        date_ok == \A i \in 1..n : DateParses(d.rows[i]["date"])
        date_recs == IF HasCol(d, "date") /\ ~date_ok
                     THEN <<Rec("HIGH", "Validity", "date_format", 0, <<>>)>>
                     ELSE <<>>
        record ==
            [range_violations |->
                [c \in {r.col : r \in Range(ranges)} |->
                    LET r == CHOOSE x \in Range(ranges) : x.col = c
                    IN [expected_range |-> <<r.min, r.max>>,
                        violations |-> rv(r),
                        percentage |-> Pct2(rv(r), n)]],
             value_violations |->
                [c \in {v.col : v \in Range(valids)} |->
                    LET v == CHOOSE x \in Range(valids) : x.col = c
                    IN [expected_values |-> v.values,
                        violations |-> Len(vv(v)),
                        invalid_values |->
                            Unique([k \in 1..Len(vv(v)) |-> vv(v)[k][1]])]],
             \* violations is <<0>> for the number 0 and <<>> for 'Unknown'
             format_violations |->
                IF ~HasCol(d, "date") THEN [c \in {} |-> 0]
                ELSE [date |-> IF date_ok
                               THEN [violations |-> <<0>>, status |-> "Valid"]
                               ELSE [violations |-> <<>>, status |-> "Invalid"]]]
    IN IF n = 0 /\ ranges # <<>> THEN Effect(d, res, recs, "ZeroDivisionError")
       ELSE Effect(d, Put(res, "validity", record),
                   recs \o range_recs \o value_recs \o date_recs, "none")

\* pd.to_datetime(..., errors='coerce') of one cell: the day number, or NaT
\* (null) for a null or unparseable value.
to_datetime_coerce(cell) ==
    IF notna(cell) /\ cell[1] \in DOMAIN DateValue THEN <<DateValue[cell[1]]>> ELSE Null

\* self.df[c] = vals: the column is overwritten, or appended as the last one.
WithColumn(d, c, vals) ==
    [columns |-> IF HasCol(d, c) THEN d.columns ELSE Append(d.columns, c),
     rows |-> [i \in 1..len(d) |->
                 [x \in DOMAIN d.rows[i] \cup {c} |->
                     IF x = c THEN vals[i] ELSE d.rows[i][x]]]]

\* self.df['date_parsed'] = pd.to_datetime(self.df['date'], errors='coerce')
AddDateParsed(d) ==
    WithColumn(d, "date_parsed", [i \in 1..len(d) |-> to_datetime_coerce(d.rows[i]["date"])])

\* Variant of FutureDates: a date equal to the current instant is a future
\* date (>= for >).
FutureDatesInclusive(d, t) ==
    {i \in 1..len(d) :
        notna(d.rows[i]["date_parsed"]) /\ d.rows[i]["date_parsed"][1] >= t}

\* self.df[self.df['date_parsed'] > datetime.now()]; NaT compares false.
FutureDates(d, t) ==
    {i \in 1..len(d) :
        notna(d.rows[i]["date_parsed"]) /\ d.rows[i]["date_parsed"][1] > t}

HighSatHighWait(d) ==
    {i \in 1..len(d) :
        /\ notna(d.rows[i]["patient_sat_score"])
        /\ notna(d.rows[i]["patient_waittime"])
        /\ d.rows[i]["patient_sat_score"][1] >= 8
        /\ d.rows[i]["patient_waittime"][1] >= 60}

AdultOnlyDepts == {"Cardiology", "Gastroenterology"}

PediatricInAdult(d) ==
    {i \in 1..len(d) :
        /\ notna(d.rows[i]["patient_age"])
        /\ d.rows[i]["patient_age"][1] < 13
        /\ notna(d.rows[i]["department_referral"])
        /\ d.rows[i]["department_referral"][1] \in AdultOnlyDepts}

\* t is the instant datetime.now() returns in this call.
check_consistency(d, t, res, recs) ==
    LET n == len(d)
        temporal == HasCol(d, "date")
        d1 == IF temporal THEN AddDateParsed(d) ELSE d
        future == Cardinality(FutureDates(d1, t))
        recs1 == IF temporal /\ future > 0
                 THEN Append(recs, Rec("HIGH", "Consistency", "future_dates", future, <<>>))
                 ELSE recs
        logical == HasCol(d, "patient_sat_score") /\ HasCol(d, "patient_waittime")
        cross == HasCol(d, "patient_age") /\ HasCol(d, "department_referral")
        suspicious == Cardinality(HighSatHighWait(d1))
        record ==
            [temporal_consistency |->
                IF temporal
                THEN [future_dates |-> [count |-> future, percentage |-> Pct2(future, n)]]
                ELSE [c \in {} |-> 0],
             logical_consistency |->
                IF logical
                THEN [high_sat_high_wait |->
                        [count |-> suspicious, percentage |-> Pct2(suspicious, n)]]
                ELSE [c \in {} |-> 0],
             cross_field_consistency |->
                IF cross
                THEN [pediatric_in_adult_dept |->
                        [count |-> Cardinality(PediatricInAdult(d1))]]
                ELSE [c \in {} |-> 0]]
    IN IF n = 0 /\ (temporal \/ logical) THEN Effect(d1, res, recs, "ZeroDivisionError")
       ELSE Effect(d1, Put(res, "consistency", record), recs1, "none")

\* The k-th smallest (k from 0) of the values vals.
OrderStat(vals, k) ==
    CHOOSE v \in Range(vals) :
        /\ Cardinality({i \in 1..Len(vals) : vals[i] < v}) <= k
        /\ k < Cardinality({i \in 1..Len(vals) : vals[i] <= v})

\* Series.quantile(num / den) with linear interpolation, times den.
QuantileTimes(vals, num, den) ==
    LET pos == num * (Len(vals) - 1)
        lo == pos \div den
        rem == pos % den
    IN IF rem = 0 THEN den * OrderStat(vals, lo)
       ELSE den * OrderStat(vals, lo)
            + rem * (OrderStat(vals, lo + 1) - OrderStat(vals, lo))

\* Q1 and Q3 in quarters; the fences Q1 - 1.5*IQR and Q3 + 1.5*IQR in eighths.
Q1x4(vals) == QuantileTimes(vals, 1, 4)
Q3x4(vals) == QuantileTimes(vals, 3, 4)
LowerBoundx8(vals) == 2 * Q1x4(vals) - 3 * (Q3x4(vals) - Q1x4(vals))
UpperBoundx8(vals) == 2 * Q3x4(vals) + 3 * (Q3x4(vals) - Q1x4(vals))

\* Variant of Outliers: a value on a fence is an outlier (<= and >= for < and >).
OutliersInclusive(vals) ==
    {i \in 1..Len(vals) :
        8 * vals[i] <= LowerBoundx8(vals) \/ 8 * vals[i] >= UpperBoundx8(vals)}

\* The non-null values outside the fences (a null compares false).
Outliers(vals) ==
    {i \in 1..Len(vals) :
        8 * vals[i] < LowerBoundx8(vals) \/ 8 * vals[i] > UpperBoundx8(vals)}

\* The columns check_accuracy analyses, in configuration order.
AnalysedColumns(d, cfg) ==
    SelectSeq(cfg.numeric_columns, LAMBDA c : HasCol(d, c) /\ Values(d, c) # <<>>)

\* The entry results['outliers'][col]; values rounded to 2 decimals.
OutlierEntry(vals) ==
    [count |-> Cardinality(Outliers(vals)),
     percentage |-> Pct2(Cardinality(Outliers(vals)), Len(vals)),
     lower_bound |-> RoundDiv(LowerBoundx8(vals) * 100, 8),
     upper_bound |-> RoundDiv(UpperBoundx8(vals) * 100, 8),
     Q1 |-> RoundDiv(Q1x4(vals) * 100, 4),
     Q3 |-> RoundDiv(Q3x4(vals) * 100, 4),
     IQR |-> RoundDiv((Q3x4(vals) - Q1x4(vals)) * 100, 4)]

\* The entry results['statistical_summary'][col], less 'std' (a square root,
\* which no result below reads).
SummaryEntry(vals) ==
    [mean |-> RoundDiv(SumSeq(vals) * 100, Len(vals)),
     median |-> RoundDiv(QuantileTimes(vals, 1, 2) * 100, 2),
     min |-> 100 * OrderStat(vals, 0),
     max |-> 100 * OrderStat(vals, Len(vals) - 1)]

\* Variant of check_accuracy: the outlier percentage is taken of all the
\* records, like every other percentage, not of the column's non-null values.
check_accuracy_of_records(d, cfg, res, recs) ==
    LET cols == AnalysedColumns(d, cfg)
        flagged == SelectSeq(cols, LAMBDA c : Outliers(Values(d, c)) # {})
        new_recs == [k \in 1..Len(flagged) |->
            LET e == OutlierEntry(Values(d, flagged[k]))
            IN Rec("LOW", "Accuracy", flagged[k], e.count, <<e.lower_bound, e.upper_bound>>)]
        record ==
            [outliers |->
                [c \in Range(cols) |->
                    [OutlierEntry(Values(d, c)) EXCEPT
                        !.percentage = Pct2(Cardinality(Outliers(Values(d, c))), len(d))]],
             statistical_summary |-> [c \in Range(cols) |-> SummaryEntry(Values(d, c))]]
    IN Effect(d, Put(res, "accuracy", record), recs \o new_recs, "none")

check_accuracy(d, cfg, res, recs) ==
    LET cols == AnalysedColumns(d, cfg)
        flagged == SelectSeq(cols, LAMBDA c : Outliers(Values(d, c)) # {})
        new_recs == [k \in 1..Len(flagged) |->
            LET e == OutlierEntry(Values(d, flagged[k]))
            IN Rec("LOW", "Accuracy", flagged[k], e.count, <<e.lower_bound, e.upper_bound>>)]
        record ==
            [outliers |-> [c \in Range(cols) |-> OutlierEntry(Values(d, c))],
             statistical_summary |-> [c \in Range(cols) |-> SummaryEntry(Values(d, c))]]
    IN Effect(d, Put(res, "accuracy", record), recs \o new_recs, "none")

-----------------------------------------------------------------------------
(* The scorer *)

Dimensions == <<"completeness", "uniqueness", "validity", "consistency", "accuracy">>

\* The number of score units in one percent point, for a frame of n records.
ScoreUnit(n) == 100 * 2 * n

\* The sum of f[k].violations (or .count) over a mapping's entries.
RECURSIVE SumOver(_, _)
SumOver(m, field) ==
    IF DOMAIN m = {} THEN 0
    ELSE LET k == CHOOSE x \in DOMAIN m : TRUE
         IN m[k][field] + SumOver([x \in DOMAIN m \ {k} |-> m[x]], field)

\* Variant of _calculate_validity_score: only the range violations are summed.
ValidityScoreRangeOnly(res, n) ==
    IF "validity" \notin DOMAIN res THEN 100 * ScoreUnit(n)
    ELSE LET total_violations == SumOver(res["validity"].range_violations, "violations")
         IN Max(0, 100 * ScoreUnit(n) - total_violations * 100 * 100 * 2)

\* Variant of _calculate_validity_score: 100 - violation_rate, not clamped at 0.
ValidityScoreUnclamped(res, n) ==
    IF "validity" \notin DOMAIN res THEN 100 * ScoreUnit(n)
    ELSE 100 * ScoreUnit(n)
         - (SumOver(res["validity"].range_violations, "violations")
            + SumOver(res["validity"].value_violations, "violations")) * 100 * 100 * 2

\* max(0, 100 - (total_violations / len(self.df)) * 100), in score units
_calculate_validity_score(res, n) ==
    IF "validity" \notin DOMAIN res THEN 100 * ScoreUnit(n)
    ELSE LET total_violations ==
                 SumOver(res["validity"].range_violations, "violations")
                 + SumOver(res["validity"].value_violations, "violations")
         IN Max(0, 100 * ScoreUnit(n) - total_violations * 100 * 100 * 2)

\* Variant of _calculate_consistency_score: without a stored entry the score
\* is 0 (a dimension that was not run is penalised).
ConsistencyScoreAbsentZero(res, n) ==
    IF "consistency" \notin DOMAIN res THEN 0
    ELSE LET tc == res["consistency"].temporal_consistency
             issues == IF "future_dates" \in DOMAIN tc THEN tc["future_dates"].count ELSE 0
         IN Max(0, 100 * ScoreUnit(n) - issues * 100 * 100 * 2)

\* Variant of _calculate_consistency_score: the high_sat_high_wait count is an
\* issue too.
ConsistencyScoreWithAdvisory(res, n) ==
    IF "consistency" \notin DOMAIN res THEN 100 * ScoreUnit(n)
    ELSE LET tc == res["consistency"].temporal_consistency
             lc == res["consistency"].logical_consistency
             issues == (IF "future_dates" \in DOMAIN tc THEN tc["future_dates"].count ELSE 0)
                       + (IF "high_sat_high_wait" \in DOMAIN lc
                          THEN lc["high_sat_high_wait"].count ELSE 0)
         IN Max(0, 100 * ScoreUnit(n) - issues * 100 * 100 * 2)

\* max(0, 100 - (issues / len(self.df)) * 100), in score units
_calculate_consistency_score(res, n) ==
    IF "consistency" \notin DOMAIN res THEN 100 * ScoreUnit(n)
    ELSE LET tc == res["consistency"].temporal_consistency
             issues == IF "future_dates" \in DOMAIN tc THEN tc["future_dates"].count ELSE 0
         IN Max(0, 100 * ScoreUnit(n) - issues * 100 * 100 * 2)

\* Variant of _calculate_accuracy_score: an outlier weighs as much as a
\* violation (the factor 0.5 is left out).
AccuracyScoreFullWeight(res, n) ==
    IF "accuracy" \notin DOMAIN res THEN 100 * ScoreUnit(n)
    ELSE LET total_outliers == SumOver(res["accuracy"].outliers, "count")
         IN Max(0, 100 * ScoreUnit(n) - total_outliers * 100 * 100 * 2)

\* max(0, 100 - (outlier_rate * 0.5)), in score units
_calculate_accuracy_score(res, n) ==
    IF "accuracy" \notin DOMAIN res THEN 100 * ScoreUnit(n)
    ELSE LET total_outliers == SumOver(res["accuracy"].outliers, "count")
         IN Max(0, 100 * ScoreUnit(n) - total_outliers * 100 * 100)

\* The dict `scores` of run_all_validations.
DimensionScores(res, n) ==
    [completeness |-> res["completeness"].completeness_score * 2 * n,
     uniqueness |-> 100 * ScoreUnit(n)
                    - res["uniqueness"].duplicate_records.exact_duplicates.percentage * 2 * n,
     validity |-> _calculate_validity_score(res, n),
     consistency |-> _calculate_consistency_score(res, n),
     accuracy |-> _calculate_accuracy_score(res, n)]

\* Variant of QualityScore: completeness counted twice (a weighted mean).
QualityScoreWeighted(scores, n) ==
    RoundDiv((SumSeq([k \in 1..Len(Dimensions) |-> scores[Dimensions[k]]])
              + scores["completeness"]) * 100,
             (Cardinality(DOMAIN scores) + 1) * ScoreUnit(n))

\* round(sum(scores.values()) / len(scores), 2), in hundredths
QualityScore(scores, n) ==
    RoundDiv(SumSeq([k \in 1..Len(Dimensions) |-> scores[Dimensions[k]]]) * 100,
             Cardinality(DOMAIN scores) * ScoreUnit(n))

\* Variant of CriticalIssues: every entry that is not LOW counts as critical.
CriticalIssuesNotLow(recs) == Len(SelectSeq(recs, LAMBDA r : r.severity # "LOW"))

\* len([r for r in self.recommendations if r['severity'] == 'HIGH'])
CriticalIssues(recs) == Len(SelectSeq(recs, LAMBDA r : r.severity = "HIGH"))

\* The record stored under 'overall'.
OverallRecord(res, recs, n) ==
    [quality_score |-> QualityScore(DimensionScores(res, n), n),
     dimension_scores |-> DimensionScores(res, n),
     total_recommendations |-> Len(recs),
     critical_issues |-> CriticalIssues(recs)]

-----------------------------------------------------------------------------
(* The validator object and its callers *)

EmptyMap == [c \in {} |-> 0]

\* Variant of DataFrameCopy: self.df = df, the caller's object itself.
DataFrameAlias(src, fresh) == src

\* df.copy(): a new object `fresh` holding the contents of `src`.
DataFrameCopy(src, fresh) == fresh

\* self.config = config or self._default_config(), for a caller passing none
config == DefaultConfig

\* The frame self.df refers to.
Df == heap[self_df]

\* A completed call: its name, the exception it raised or "none", the instant,
\* and the value it returned (the records as they were when it returned).
Call(name, raised, t, ret) ==
    [call |-> name, raised |-> raised, now |-> t,
     ret |-> IF raised = "none" THEN ret ELSE EmptyMap]

\* The stages of run_all_analytics.main(), the keys of its results in order.
Stages == <<"database_setup", "data_quality", "performance_reports", "visualizations">>

\* run_all_analytics.main() has not been entered.
MasterIdle ==
    [pc |-> "none", stage |-> 1, results |-> [s \in Range(Stages) |-> FALSE],
     started |-> <<>>, log |-> <<>>, summary |-> FALSE, result |-> "none"]

\* __init__
Init ==
    /\ \E d \in Datasets : heap = [o \in {"arg", "df", "original_df"} |-> d]
    /\ self_df = DataFrameCopy("arg", "df")
    /\ validation_results = EmptyMap
    /\ recommendations = <<>>
    /\ now = CHOOSE t \in Instants : \A u \in Instants : t <= u
    /\ pc = "idle"
    /\ calls = 0
    /\ invoked = {}
    /\ last = Call("__init__", "none", now, EmptyMap)
    /\ exports = {}
    /\ main_pc = "none"
    /\ main_result = "none"
    /\ master = MasterIdle

\* A client holding the validator may call a method of it.
ClientMayCall == pc = "idle" /\ main_pc = "none" /\ calls < MaxCalls

\* Variant of MainExcept: the exception is swallowed and main() goes on to the
\* export.
MainExceptContinue == main_pc' = "exporting" /\ UNCHANGED main_result

\* main(): except Exception ... return False
MainExcept == main_pc' = "returned" /\ main_result' = "False"

\* Variant of Apply: the recommendation list is kept sorted by severity, the
\* HIGH entries first.
ApplySeveritySorted(e) ==
    /\ heap' = [heap EXCEPT ![self_df] = e.df]
    /\ validation_results' = e.results
    /\ recommendations' = SelectSeq(e.recs, LAMBDA r : r.severity = "HIGH")
                           \o SelectSeq(e.recs, LAMBDA r : r.severity # "HIGH")

\* The state a check method leaves in self.
Apply(e) ==
    /\ heap' = [heap EXCEPT ![self_df] = e.df]
    /\ validation_results' = e.results
    /\ recommendations' = e.recs

\* The end of a check method that raised or returned e: of the client's call,
\* or of a step of run_all_validations, which goes on to `next` unless the
\* exception passes through it to its caller.
Finish(method, dim, next, e) ==
    IF pc = "idle"
    THEN /\ pc' = "idle"
         /\ calls' = calls + 1
         /\ invoked' = invoked \cup {method}
         /\ last' = Call(method, e.raised, now',
                         IF e.raised = "none" THEN e.results[dim] ELSE EmptyMap)
         /\ UNCHANGED <<main_pc, main_result>>
    ELSE IF e.raised = "none"
    THEN /\ pc' = next
         /\ UNCHANGED <<calls, invoked, last, main_pc, main_result>>
    ELSE /\ pc' = "idle"
         /\ last' = Call("run_all_validations", e.raised, now', EmptyMap)
         /\ UNCHANGED <<calls, invoked>>
         /\ IF main_pc = "validating" THEN MainExcept
            ELSE UNCHANGED <<main_pc, main_result>>

CheckCompleteness ==
    /\ ClientMayCall \/ pc = "completeness"
    /\ now' = now
    /\ LET e == check_completeness(Df, config, validation_results, recommendations)
       IN Apply(e) /\ Finish("check_completeness", "completeness", "uniqueness", e)
    /\ UNCHANGED <<self_df, exports, master>>

CheckUniqueness ==
    /\ ClientMayCall \/ pc = "uniqueness"
    /\ now' = now
    /\ LET e == check_uniqueness(Df, validation_results, recommendations)
       IN Apply(e) /\ Finish("check_uniqueness", "uniqueness", "validity", e)
    /\ UNCHANGED <<self_df, exports, master>>

CheckValidity ==
    /\ ClientMayCall \/ pc = "validity"
    /\ now' = now
    /\ LET e == check_validity(Df, config, validation_results, recommendations)
       IN Apply(e) /\ Finish("check_validity", "validity", "consistency", e)
    /\ UNCHANGED <<self_df, exports, master>>

CheckConsistency ==
    /\ ClientMayCall \/ pc = "consistency"
    /\ \E t \in Instants :
        /\ t >= now
        /\ now' = t
        /\ LET e == check_consistency(Df, t, validation_results, recommendations)
           IN Apply(e) /\ Finish("check_consistency", "consistency", "accuracy", e)
    /\ UNCHANGED <<self_df, exports, master>>

CheckAccuracy ==
    /\ ClientMayCall \/ pc = "accuracy"
    /\ now' = now
    /\ LET e == check_accuracy(Df, config, validation_results, recommendations)
       IN Apply(e) /\ Finish("check_accuracy", "accuracy", "score", e)
    /\ UNCHANGED <<self_df, exports, master>>

\* run_all_validations() is entered by a client.
RunAllStart ==
    /\ ClientMayCall
    /\ pc' = "completeness"
    /\ calls' = calls + 1
    /\ invoked' = invoked \cup {"run_all_validations"}
    /\ UNCHANGED <<heap, self_df, validation_results, recommendations, now, last,
                   exports, main_pc, main_result, master>>

\* Variant of RunAllScore: the scores are computed before check_accuracy has
\* run as well as after it.
RunAllScoreEarly ==
    /\ pc \in {"accuracy", "score"}
    /\ validation_results' =
           Put(validation_results, "overall",
               OverallRecord(validation_results, recommendations, len(Df)))
    /\ pc' = "idle"
    /\ last' = Call("run_all_validations", "none", now, validation_results')
    /\ IF main_pc = "validating"
       THEN main_pc' = "exporting" /\ UNCHANGED main_result
       ELSE UNCHANGED <<main_pc, main_result>>
    /\ UNCHANGED <<heap, self_df, recommendations, now, calls, invoked, exports, master>>

\* run_all_validations(): the scores, the 'overall' record, the return.
RunAllScore ==
    /\ pc = "score"
    /\ validation_results' =
           Put(validation_results, "overall",
               OverallRecord(validation_results, recommendations, len(Df)))
    /\ pc' = "idle"
    /\ last' = Call("run_all_validations", "none", now, validation_results')
    /\ IF main_pc = "validating"
       THEN main_pc' = "exporting" /\ UNCHANGED main_result
       ELSE UNCHANGED <<main_pc, main_result>>
    /\ UNCHANGED <<heap, self_df, recommendations, now, calls, invoked, exports, master>>

\* What the writers of export_validation_report(format='all') are given: the
\* JSON writer dumps the mapping as it is; the Excel and text writers read
\* validation_results['overall'] and raise KeyError without it.
Written(res) ==
    {[writer |-> "json", keys |-> DOMAIN res]}
    \cup IF "overall" \in DOMAIN res
         THEN {[writer |-> w, keys |-> DOMAIN res] : w \in {"excel", "txt"}}
         ELSE {}

ExportRaises(res, io_ok) ==
    IF ~io_ok THEN "OSError"
    ELSE IF "overall" \notin DOMAIN res THEN "KeyError"
    ELSE "none"

\* export_validation_report() called by a client, with the default format
\* 'all'; the file system may refuse the first write.
Export ==
    /\ ClientMayCall
    /\ \E io_ok \in BOOLEAN :
        /\ exports' = IF io_ok THEN exports \cup Written(validation_results)
                      ELSE exports
        /\ last' = Call("export_validation_report",
                        ExportRaises(validation_results, io_ok), now, EmptyMap)
    /\ calls' = calls + 1
    /\ invoked' = invoked \cup {"export_validation_report"}
    /\ UNCHANGED <<heap, self_df, validation_results, recommendations, now, pc,
                   main_pc, main_result, master>>

\* main(): the dataset is loaded, the validator built, run_all_validations entered.
MainStart ==
    /\ pc = "idle" /\ main_pc = "none" /\ calls = 0
    /\ main_pc' = "validating"
    /\ pc' = "completeness"
    /\ calls' = calls + 1
    /\ invoked' = invoked \cup {"run_all_validations"}
    /\ UNCHANGED <<heap, self_df, validation_results, recommendations, now, last,
                   exports, main_result, master>>

\* main(): pd.read_csv raises.
MainLoadFail ==
    /\ pc = "idle" /\ main_pc = "none" /\ calls = 0
    /\ MainExcept
    /\ UNCHANGED <<heap, self_df, validation_results, recommendations, now, pc, calls,
                   invoked, last, exports, master>>

\* main(): export_validation_report(format='all'), the summary, return True.
MainExport ==
    /\ main_pc = "exporting"
    /\ \E io_ok \in BOOLEAN :
        /\ exports' = IF io_ok THEN exports \cup Written(validation_results)
                      ELSE exports
        /\ last' = Call("export_validation_report",
                        ExportRaises(validation_results, io_ok), now, EmptyMap)
        /\ IF ExportRaises(validation_results, io_ok) = "none"
           THEN main_pc' = "returned" /\ main_result' = "True"
           ELSE MainExcept
    /\ calls' = calls + 1
    /\ invoked' = invoked \cup {"export_validation_report"}
    /\ UNCHANGED <<heap, self_df, validation_results, recommendations, now, pc, master>>

\* A client calls one of the _calculate_*_score methods (the underscore is a
\* convention, not a bar).  s is what the method computes, in score units;
\* the value returned is kept with its unit.  With the entry stored the method
\* divides by len(self.df).
ScoreCall(method, dim, s) ==
    LET n == len(Df)
        raised == IF dim \in DOMAIN validation_results /\ n = 0
                  THEN "ZeroDivisionError" ELSE "none"
    IN /\ ClientMayCall
       /\ calls' = calls + 1
       /\ invoked' = invoked \cup {method}
       /\ last' = Call(method, raised, now, [score |-> s, unit |-> ScoreUnit(n)])
       /\ UNCHANGED <<heap, self_df, validation_results, recommendations, now, pc,
                      exports, main_pc, main_result, master>>

CalculateValidityScore ==
    ScoreCall("_calculate_validity_score", "validity",
              _calculate_validity_score(validation_results, len(Df)))

CalculateConsistencyScore ==
    ScoreCall("_calculate_consistency_score", "consistency",
              _calculate_consistency_score(validation_results, len(Df)))

CalculateAccuracyScore ==
    ScoreCall("_calculate_accuracy_score", "accuracy",
              _calculate_accuracy_score(validation_results, len(Df)))

Next ==
    \/ CheckCompleteness
    \/ CheckUniqueness
    \/ CheckValidity
    \/ CheckConsistency
    \/ CheckAccuracy
    \/ RunAllStart
    \/ RunAllScore
    \/ Export
    \/ MainStart
    \/ MainLoadFail
    \/ MainExport

Spec == Init /\ [][Next]_vars

\* A client that calls the check methods, run_all_validations and the score
\* methods of a validator.
ScorerNext ==
    \/ CheckCompleteness
    \/ CheckUniqueness
    \/ CheckValidity
    \/ CheckConsistency
    \/ CheckAccuracy
    \/ RunAllStart
    \/ RunAllScore
    \/ CalculateValidityScore
    \/ CalculateConsistencyScore
    \/ CalculateAccuracyScore

ScorerSpec == Init /\ [][ScorerNext]_vars

-----------------------------------------------------------------------------
(* A client that calls check_accuracy and _calculate_accuracy_score on        *)
(* datasets long enough to have outliers: a date, an identifier and two       *)
(* numeric columns, patient_waittime, whose cells are drawn from AccCells,    *)
(* and patient_age, whose cell is 120 in the records with a wait of 0 and 40  *)
(* in the others (those with a null wait too); patient_sat_score is absent.   *)

\* Largest number of records of such a dataset.
AccRows == 5

AccCells == << Null, <<0>>, <<1>>, <<100>> >>

\* The age that goes with each cell of AccCells.
AccAges == << <<40>>, <<120>>, <<40>>, <<40>> >>

AccFrame(picks) ==
    [columns |-> <<"date", "patient_id", "patient_age", "patient_waittime">>,
     rows |-> [i \in 1..Len(picks) |->
                 [date |-> <<"2024-01-05">>, patient_id |-> <<i>>,
                  patient_age |-> AccAges[picks[i]],
                  patient_waittime |-> AccCells[picks[i]]]]]

\* The datasets are drawn up to the order of their records.
AccDatasets ==
    {AccFrame(p) :
        p \in UNION {{q \in [1..n -> 1..Len(AccCells)] :
                         \A i \in 1..(n - 1) : q[i] <= q[i + 1]} : n \in 0..AccRows}}

\* __init__ on such a dataset
AccInit ==
    /\ \E d \in AccDatasets : heap = [o \in {"arg", "df", "original_df"} |-> d]
    /\ self_df = DataFrameCopy("arg", "df")
    /\ validation_results = EmptyMap
    /\ recommendations = <<>>
    /\ now = CHOOSE t \in Instants : \A u \in Instants : t <= u
    /\ pc = "idle"
    /\ calls = 0
    /\ invoked = {}
    /\ last = Call("__init__", "none", now, EmptyMap)
    /\ exports = {}
    /\ main_pc = "none"
    /\ main_result = "none"
    /\ master = MasterIdle

AccNext ==
    \/ CheckAccuracy
    \/ CalculateAccuracyScore

AccuracySpec == AccInit /\ [][AccNext]_vars

------------------------------------------------------------------------------
(* A client that calls check_validity and _calculate_validity_score on       *)
(* datasets with one range-checked column, patient_age, and one               *)
(* value-checked column, patient_gender, whose records are drawn from         *)
(* ValRowPool: a valid one, one violating the range, one violating both, one  *)
(* with a null age, and a valid one whose date does not parse.                *)

ValRows == 3

ValRow(date, age, gender) ==
    [date |-> date, patient_id |-> <<1>>, patient_age |-> age, patient_gender |-> gender]

ValRowPool ==
    << ValRow(<<"2024-01-05">>, <<40>>, <<"M">>),
       ValRow(<<"2024-01-05">>, <<121>>, <<"M">>),
       ValRow(<<"2024-01-05">>, <<121>>, <<"X">>),
       ValRow(<<"2024-01-05">>, Null, <<"F">>),
       ValRow(<<"not-a-date">>, <<40>>, <<"M">>) >>

ValFrame(picks) ==
    [columns |-> <<"date", "patient_id", "patient_age", "patient_gender">>,
     rows |-> [i \in 1..Len(picks) |-> ValRowPool[picks[i]]]]

ValDatasets == {ValFrame(p) : p \in UNION {{q \in [1..n -> 1..Len(ValRowPool)] : \A i \in 1..(n - 1) : q[i] <= q[i + 1]} : n \in 0..ValRows}}

\* __init__ on such a dataset
ValInit ==
    /\ \E d \in ValDatasets : heap = [o \in {"arg", "df", "original_df"} |-> d]
    /\ self_df = DataFrameCopy("arg", "df")
    /\ validation_results = EmptyMap
    /\ recommendations = <<>>
    /\ now = CHOOSE t \in Instants : \A u \in Instants : t <= u
    /\ pc = "idle"
    /\ calls = 0
    /\ invoked = {}
    /\ last = Call("__init__", "none", now, EmptyMap)
    /\ exports = {}
    /\ main_pc = "none"
    /\ main_result = "none"
    /\ master = MasterIdle

ValNext ==
    \/ CheckValidity
    \/ CalculateValidityScore

ValiditySpec == ValInit /\ [][ValNext]_vars

------------------------------------------------------------------------------
(* run_all_analytics.main(): the master script.  What a stage's callee does   *)
(* (setup_database, data_quality_validator.main, run_weekly_report,           *)
(* dashboard_visualizations.main) is an input here: it returns a truthy or a  *)
(* falsy value, or it, or its import, raises.                                 *)

\* The validator's variables, which the master script's steps leave alone.
validator_vars ==
    << heap, self_df, validation_results, recommendations, now, pc, calls,
       invoked, last, exports, main_pc, main_result >>

\* Variant of AfterStage: main() gives up at the first stage that reports
\* failure, whichever stage it is.
AfterStageStopOnFailure(m, ok) ==
    LET r == [m EXCEPT !.results[Stages[m.stage]] = ok]
    IN IF ~ok THEN [r EXCEPT !.pc = "returned", !.result = "False"]
       ELSE IF m.stage < Len(Stages) THEN [r EXCEPT !.pc = "call", !.stage = m.stage + 1]
       ELSE [r EXCEPT !.pc = "summary"]

\* main() once the stage it called has returned ok: the result is kept; a
\* failed database setup ends main() with False; otherwise the next stage is
\* called, or after the last one the summary is due.
AfterStage(m, ok) ==
    LET r == [m EXCEPT !.results[Stages[m.stage]] = ok]
    IN IF m.stage = 1 /\ ~ok THEN [r EXCEPT !.pc = "returned", !.result = "False"]
       ELSE IF m.stage < Len(Stages) THEN [r EXCEPT !.pc = "call", !.stage = m.stage + 1]
       ELSE [r EXCEPT !.pc = "summary"]

\* sum(results.values())
success_count(results) == Cardinality({s \in Range(Stages) : results[s]})

\* Variant of Verdict: main() returns True only if every stage succeeded.
VerdictAllSucceeded(results) ==
    IF success_count(results) = Len(Stages) THEN "True" ELSE "False"

\* What main() returns: True if success_rate == 100 or success_rate >= 75,
\* with success_rate = success_count / total_steps * 100.
Verdict(results) ==
    LET total_steps == Len(Stages)
    IN IF success_count(results) * 100 = 100 * total_steps THEN "True"
       ELSE IF success_count(results) * 100 >= 75 * total_steps THEN "True"
       ELSE "False"

\* main() is entered: every result starts as False.
MasterMain ==
    /\ master.pc = "none"
    /\ master' = [master EXCEPT !.pc = "call",
                                !.results = [s \in Range(Stages) |-> FALSE]]
    /\ UNCHANGED validator_vars

\* main() calls the run_* function of the next stage, which prints its banner
\* and enters its try block.
RunStage ==
    /\ master.pc = "call"
    /\ master' = [master EXCEPT !.pc = "in_stage",
                                !.started = Append(@, Stages[master.stage])]
    /\ UNCHANGED validator_vars

\* The stage's callee returns success: the run_* function logs the outcome and
\* returns True or False, and main() goes on.
StageReturns ==
    /\ master.pc = "in_stage"
    /\ \E success \in BOOLEAN :
        master' = AfterStage([master EXCEPT
                                  !.log = Append(@, IF success THEN "completed" ELSE "failed")],
                             success)
    /\ UNCHANGED validator_vars

\* The stage's import or callee raises: except Exception logs the error and
\* the run_* function returns False.
StageRaises ==
    /\ master.pc = "in_stage"
    /\ master' = AfterStage([master EXCEPT !.log = Append(@, "error")], FALSE)
    /\ UNCHANGED validator_vars

\* main(): the success rate, the final results, generate_summary_report(),
\* which writes EXECUTION_SUMMARY.txt; if the file system refuses the write,
\* the exception leaves main().
GenerateSummaryReport ==
    /\ master.pc = "summary"
    /\ \E io_ok \in BOOLEAN :
        master' = IF io_ok THEN [master EXCEPT !.pc = "verdict", !.summary = TRUE]
                  ELSE [master EXCEPT !.pc = "returned", !.result = "OSError"]
    /\ UNCHANGED validator_vars

\* main(): the return after the summary.
MasterReturn ==
    /\ master.pc = "verdict"
    /\ master' = [master EXCEPT !.pc = "returned", !.result = Verdict(master.results)]
    /\ UNCHANGED validator_vars

\* The master script is started; no validator has been built yet.
MasterInit ==
    /\ heap = [o \in {"arg", "df", "original_df"} |-> Frame(Range(ExpectedColumns), <<>>)]
    /\ self_df = DataFrameCopy("arg", "df")
    /\ validation_results = EmptyMap
    /\ recommendations = <<>>
    /\ now = CHOOSE t \in Instants : \A u \in Instants : t <= u
    /\ pc = "idle"
    /\ calls = 0
    /\ invoked = {}
    /\ last = Call("__init__", "none", now, EmptyMap)
    /\ exports = {}
    /\ main_pc = "none"
    /\ main_result = "none"
    /\ master = MasterIdle

MasterNext ==
    \/ MasterMain
    \/ RunStage
    \/ StageReturns
    \/ StageRaises
    \/ GenerateSummaryReport
    \/ MasterReturn

MasterSpec == MasterInit /\ [][MasterNext]_vars

-----------------------------------------------------------------------------
(* Properties *)

CheckMethods ==
    {"check_completeness", "check_uniqueness", "check_validity", "check_consistency",
     "check_accuracy"}

AllKeys == Range(Dimensions) \cup {"overall"}

\* The client's last call was run_all_validations and it returned.
RunReturned ==
    pc = "idle" /\ last.call = "run_all_validations" /\ last.raised = "none"

\* The dataset the validator was constructed on.
Given == heap["original_df"]

\* C1: a run of run_all_validations that directly follows a returned run, at
\* the same instant, returns the records the first run returned.
C1_Idempotent ==
    [][(pc = "score" /\ last.call = "run_all_validations" /\ last.raised = "none"
        /\ last.now = now)
       => last'.ret = last.ret]_vars

\* C2: main() on its fresh validator: either run_all_validations returned all
\* six entries, or it raised, and then there is no 'overall' entry, main()
\* returned False and nothing was exported; no writer is ever given a mapping
\* without all six entries.
C2_CompleteOrFailed ==
    main_pc # "none" =>
        /\ main_pc = "exporting" => DOMAIN validation_results = AllKeys
        /\ main_result = "True" => DOMAIN validation_results = AllKeys
        /\ (main_pc = "returned" /\ last.call = "run_all_validations") =>
              /\ last.raised # "none"
              /\ "overall" \notin DOMAIN validation_results
              /\ main_result = "False"
              /\ exports = {}
        /\ \A x \in exports : x.keys = AllKeys

\* C2 witness: main() has returned False after run_all_validations raised
\* with a dimension record already stored.
C2_Witness ==
    /\ main_pc = "returned" /\ main_result = "False"
    /\ last.call = "run_all_validations" /\ last.raised = "ZeroDivisionError"
    /\ "completeness" \in DOMAIN validation_results

\* C3: on a dataset of 0 records the first run_all_validations returns, every
\* score is 100 and there is no recommendation.
C3_EmptyDataset ==
    (len(Given) = 0 /\ pc = "idle" /\ calls = 1 /\ last.call = "run_all_validations") =>
        /\ last.raised = "none"
        /\ "overall" \in DOMAIN validation_results
        /\ validation_results["overall"].quality_score = 100 * 100
        /\ recommendations = <<>>

\* C4: on a non-empty dataset no check method raises, whatever columns are
\* absent, and no recommendation names an absent column.
C4_MissingColumnsNonFatal ==
    (len(Given) > 0 /\ pc = "idle" /\ last.call \in CheckMethods) =>
        /\ last.raised = "none"
        /\ \A i \in 1..Len(recommendations) :
              recommendations[i].subject \in Range(ExpectedColumns)
                  => HasCol(Df, recommendations[i].subject)

C6_QualityIsMean ==
    "overall" \in DOMAIN validation_results =>
        LET o == validation_results["overall"]
            s == o.dimension_scores
            n == len(Df)
            total == s["completeness"] + s["uniqueness"] + s["validity"]
                     + s["consistency"] + s["accuracy"]
            err == o.quality_score * 5 * ScoreUnit(n) - 100 * total
        IN /\ DOMAIN s = Range(Dimensions)
           /\ 2 * err <= 5 * ScoreUnit(n) /\ -2 * err <= 5 * ScoreUnit(n)
           /\ RunReturned =>
                 /\ s["completeness"]
                    = validation_results["completeness"].completeness_score * 2 * n
                 /\ s["uniqueness"]
                    = 100 * ScoreUnit(n)
                      - validation_results["uniqueness"].duplicate_records
                            .exact_duplicates.percentage * 2 * n

\* C6 witness: a returned run whose five scores are not all equal and whose
\* mean is not a whole number.
C6_Witness ==
    /\ RunReturned
    /\ validation_results["overall"].quality_score % 100 # 0
    /\ validation_results["overall"].dimension_scores["validity"]
       # validation_results["overall"].dimension_scores["completeness"]

\* C7 as claimed: between calls, whenever 'overall' is stored, its
\* total_recommendations is the length of the recommendation list and its
\* critical_issues the number of HIGH entries.
C7_CountsAlways ==
    (pc = "idle" /\ "overall" \in DOMAIN validation_results) =>
        /\ validation_results["overall"].total_recommendations = Len(recommendations)
        /\ validation_results["overall"].critical_issues
           = Cardinality({i \in 1..Len(recommendations) :
                             recommendations[i].severity = "HIGH"})

\* C7 amended: when run_all_validations returns, total_recommendations is the
\* length of the recommendation list and critical_issues the number of HIGH
\* entries.
C7_CountsAtReturn ==
    RunReturned =>
        /\ validation_results["overall"].total_recommendations = Len(recommendations)
        /\ validation_results["overall"].critical_issues
           = Cardinality({i \in 1..Len(recommendations) :
                             recommendations[i].severity = "HIGH"})

\* C7 witness: a returned run with HIGH and other recommendations.
C7_Witness ==
    /\ RunReturned
    /\ validation_results["overall"].critical_issues > 0
    /\ validation_results["overall"].critical_issues < Len(recommendations)

\* C8: the completeness score check_completeness returns is
\* (total_cells - missing_cells) / total_cells * 100, lies in [0, 100], and is
\* 100 iff the dataset has no null cell.
C8_CompletenessScore ==
    (pc = "idle" /\ last.call = "check_completeness" /\ last.raised = "none") =>
        LET score == last.ret.completeness_score
            total_cells == last.ret.total_records * last.ret.total_columns
            missing == Cardinality({<<i, c>> \in (1..len(Df)) \X Range(Df.columns) :
                                       isnull(Df.rows[i][c])})
        IN /\ score \in 0..(100 * 100)
           /\ 2 * (score * total_cells - (total_cells - missing) * 100 * 100) <= total_cells
           /\ 2 * ((total_cells - missing) * 100 * 100 - score * total_cells) <= total_cells
           /\ score = 100 * 100 <=> missing = 0

\* The record each check stores when the five are called once each in the
\* default order on a fresh validator: the consistency check has added its
\* column by the time the accuracy check runs.
DefaultOrderRecord(dim) ==
    CASE dim = "completeness" ->
            check_completeness(Given, config, EmptyMap, <<>>).results[dim]
      [] dim = "uniqueness" -> check_uniqueness(Given, EmptyMap, <<>>).results[dim]
      [] dim = "validity" -> check_validity(Given, config, EmptyMap, <<>>).results[dim]
      [] dim = "consistency" -> check_consistency(Given, now, EmptyMap, <<>>).results[dim]
      [] dim = "accuracy" ->
            check_accuracy(check_consistency(Given, now, EmptyMap, <<>>).df, config,
                           EmptyMap, <<>>).results[dim]

\* C9: on a fresh validator over a non-empty dataset, whatever the order in
\* which check methods are called once each, every stored record is the one
\* the default order stores.
C9_OrderIndependent ==
    (/\ len(Given) > 0
     /\ pc = "idle" /\ invoked \subseteq CheckMethods /\ calls = Cardinality(invoked)) =>
        \A dim \in DOMAIN validation_results :
            validation_results[dim] = DefaultOrderRecord(dim)

\* C10: the caller's DataFrame is what it was at construction.
C10_InputNotMutated == heap["arg"] = Given

\* C10 witness: check_consistency has added its column to self.df.
C10_Witness ==
    /\ HasCol(Df, "date_parsed")
    /\ ~HasCol(heap["arg"], "date_parsed")
    /\ "consistency" \in DOMAIN validation_results

\* C11: the frame the check methods read is, at every moment, the dataset the
\* validator was constructed on: same columns, same cells.
C11_SnapshotImmutable == Df = Given

\* The step run_all_validations takes after each of its steps.
NextPass ==
    [completeness |-> "uniqueness", uniqueness |-> "validity", validity |-> "consistency",
     consistency |-> "accuracy", accuracy |-> "score", score |-> "idle"]

\* The entry k is written in this step.
Writes(k) ==
    /\ k \in DOMAIN validation_results'
    /\ k \notin DOMAIN validation_results \/ validation_results'[k] # validation_results[k]

\* C12: in an execution of run_all_validations every step writes the entry of
\* the pass in turn and no other, the passes come in the fixed order, each
\* once, and a pass that returns has stored its entry; 'overall' is written by
\* the last step only, with the five entries stored and left as they are, its
\* dimension scores being those of the five stored entries.
C12_ScorerLast ==
    [][pc # "idle" =>
         /\ \A k \in AllKeys : Writes(k) => pc = (IF k = "overall" THEN "score" ELSE k)
         /\ pc' \in {"idle", NextPass[pc]}
         /\ (pc # "score" /\ pc' # "idle") => pc \in DOMAIN validation_results'
         /\ pc = "score" =>
               /\ Range(Dimensions) \subseteq DOMAIN validation_results
               /\ \A k \in Range(Dimensions) :
                     validation_results'[k] = validation_results[k]
               /\ validation_results'["overall"].dimension_scores
                  = DimensionScores(validation_results, len(Df))]_vars

\* C12 witness: a second run has returned, the scorer having run with the
\* 'overall' entry of the first run still stored while the five were rewritten.
C12_Witness ==
    /\ RunReturned
    /\ calls = 2 /\ invoked = {"run_all_validations"}
    /\ DOMAIN validation_results = AllKeys

PassRank ==
    [Completeness |-> 1, Uniqueness |-> 2, Validity |-> 3, Consistency |-> 4,
     Accuracy |-> 5]

\* The first call on the validator is run_all_validations, running or returned.
FirstRun == calls = 1 /\ invoked = {"run_all_validations"}

\* C13: no step removes or reorders a recommendation (the list only grows at
\* its end), and during and after run_all_validations on a fresh validator
\* the entries stand in pass order, whatever their severities.
C13_PassOrder ==
    [][/\ Len(recommendations) <= Len(recommendations')
       /\ SubSeq(recommendations', 1, Len(recommendations)) = recommendations
       /\ FirstRun' =>
             \A i, j \in 1..Len(recommendations') :
                 i < j => PassRank[recommendations'[i].category]
                          <= PassRank[recommendations'[j].category]]_vars

\* C13 witness: a returned first run in which an entry that is not HIGH, of an
\* earlier pass, precedes a HIGH entry of a later pass.
C13_Witness ==
    /\ RunReturned /\ FirstRun
    /\ \E i, j \in 1..Len(recommendations) :
          /\ i < j
          /\ recommendations[i].severity # "HIGH"
          /\ recommendations[j].severity = "HIGH"
          /\ PassRank[recommendations[i].category]
             < PassRank[recommendations[j].category]

ScoreMethods ==
    [validity |-> "_calculate_validity_score",
     consistency |-> "_calculate_consistency_score",
     accuracy |-> "_calculate_accuracy_score"]

\* C14: a score method called while its dimension has no entry returns 100
\* and raises nothing, also on a dataset of 0 records; the scores of
\* completeness and uniqueness are computed in one place only, the scorer of
\* run_all_validations, and there their entries are never absent.
C14_AbsentScores100 ==
    /\ \A dim \in DOMAIN ScoreMethods :
          (pc = "idle" /\ last.call = ScoreMethods[dim]
           /\ dim \notin DOMAIN validation_results) =>
              /\ last.raised = "none"
              /\ last.ret.unit = ScoreUnit(len(Df))
              /\ last.ret.score = 100 * last.ret.unit
    /\ pc = "score" => {"completeness", "uniqueness"} \subseteq DOMAIN validation_results

\* C14 witness: _calculate_consistency_score has returned 100 on a dataset
\* with records, check_consistency never having run while another check has.
C14_Witness ==
    /\ pc = "idle" /\ last.call = "_calculate_consistency_score"
    /\ "consistency" \notin DOMAIN validation_results
    /\ DOMAIN validation_results # {}
    /\ len(Df) > 0
    /\ last.ret.score = 100 * last.ret.unit

\* The frames that hold the records of d in another order.
Reorderings(d) ==
    {[d EXCEPT !.rows = [i \in 1..len(d) |-> d.rows[p[i]]]] :
        p \in {q \in [1..len(d) -> 1..len(d)] :
                  \A i, j \in 1..len(d) : q[i] = q[j] => i = j}}

\* C15: the exact_duplicates count check_uniqueness returns is the number of
\* records equal in every field to another record, and the count it would
\* return for the records in any other order is the same; and the first
\* run_all_validations on a dataset without such records returns a
\* uniqueness score of exactly 100.
C15_ExactDuplicates ==
    /\ (pc = "idle" /\ last.call = "check_uniqueness" /\ last.raised = "none") =>
          /\ last.ret.duplicate_records.exact_duplicates.count
             = Cardinality({i \in 1..len(Df) :
                               \E j \in 1..len(Df) : j # i /\ Df.rows[j] = Df.rows[i]})
          /\ \A e \in Reorderings(Df) :
                check_uniqueness(e, EmptyMap, <<>>).results["uniqueness"]
                    .duplicate_records.exact_duplicates.count
                = last.ret.duplicate_records.exact_duplicates.count
    /\ (/\ pc = "idle" /\ calls = 1 /\ last.call = "run_all_validations"
        /\ \A i, j \in 1..len(Given) : Given.rows[i] = Given.rows[j] => i = j) =>
          /\ last.raised = "none"
          /\ "overall" \in DOMAIN validation_results
          /\ validation_results["overall"].dimension_scores["uniqueness"]
             = 100 * ScoreUnit(len(Given))

\* The recommendations a step appends.
Appended ==
    SubSeq(recommendations', Len(recommendations) + 1, Len(recommendations'))

\* A call of the method returns in this step: a step of run_all_validations
\* that goes on to the pass `next`, or a client's call.
Returns(method, dim, next) ==
    \/ pc = dim /\ pc' = next
    \/ /\ pc = "idle" /\ pc' = "idle" /\ calls' = calls + 1
       /\ last'.call = method /\ last'.raised = "none"

\* C16: when check_validity returns, for every configured range (min, max) on
\* a present column the violation count is the number of records less the
\* nulls and less the values v with min <= v <= max (a value on a bound is not
\* counted, a value one unit outside is), the percentage is count / records
\* x 100 to the nearest hundredth, and the call has appended one MEDIUM
\* Validity recommendation for the column, carrying the count, if the count
\* is positive and none if it is 0.
C16_InclusiveBounds ==
    [][Returns("check_validity", "validity", "consistency") =>
         \A r \in Range(config.expected_ranges) :
            HasCol(Df, r.col) =>
               LET n == len(Df)
                   within == {i \in 1..n :
                                 /\ notna(Df.rows[i][r.col])
                                 /\ r.min <= Df.rows[i][r.col][1]
                                 /\ Df.rows[i][r.col][1] <= r.max}
                   count == n - MissingCount(Df, r.col) - Cardinality(within)
                   entry == validation_results'["validity"].range_violations[r.col]
                   err == entry.percentage * n - count * 100 * 100
                   mine == SelectSeq(Appended,
                              LAMBDA x : x.category = "Validity" /\ x.subject = r.col
                                         /\ x.detail = <<r.min, r.max>>)
               IN /\ entry.violations = count
                  /\ 2 * err <= n /\ -2 * err <= n
                  /\ Len(mine) = IF count > 0 THEN 1 ELSE 0
                  /\ \A k \in 1..Len(mine) :
                        mine[k].severity = "MEDIUM" /\ mine[k].count = count]_vars

\* C16 witness: check_validity has returned on a dataset holding a wait of 300
\* (the bound) and one of -1, a score of 10 (the bound) and one of 11, with
\* one violation counted for each column.
C16_Witness ==
    /\ pc = "idle" /\ last.call = "check_validity" /\ last.raised = "none"
    /\ \E i, j \in 1..len(Df) :
          /\ Df.rows[i]["patient_waittime"] = <<300>>
          /\ Df.rows[j]["patient_waittime"] = <<-1>>
          /\ Df.rows[i]["patient_sat_score"] = <<10>>
          /\ Df.rows[j]["patient_sat_score"] = <<11>>
    /\ last.ret.range_violations["patient_waittime"].violations = 1
    /\ last.ret.range_violations["patient_sat_score"].violations = 1
    /\ last.ret.range_violations["patient_sat_score"].percentage = 50 * 100

\* C17: when check_validity returns, a range violation count is the number of
\* non-null values outside the range and a value violation count the number
\* of non-null values outside the permitted set, so that neither exceeds the
\* number of non-null cells of its column and a column of nulls has count 0;
\* invalid_values lists exactly the non-null values that are not permitted.
C17_NullsExempt ==
    [][Returns("check_validity", "validity", "consistency") =>
         LET n == len(Df)
             rec == validation_results'["validity"]
             present(c) == {i \in 1..n : notna(Df.rows[i][c])}
         IN /\ \A r \in Range(config.expected_ranges) :
                  HasCol(Df, r.col) =>
                     /\ rec.range_violations[r.col].violations
                        = Cardinality({i \in present(r.col) :
                              Df.rows[i][r.col][1] < r.min \/ Df.rows[i][r.col][1] > r.max})
                     /\ rec.range_violations[r.col].violations
                        <= n - MissingCount(Df, r.col)
            /\ \A v \in Range(config.valid_values) :
                  HasCol(Df, v.col) =>
                     /\ rec.value_violations[v.col].violations
                        = Cardinality({i \in present(v.col) :
                              Df.rows[i][v.col][1] \notin v.values})
                     /\ rec.value_violations[v.col].violations
                        <= n - MissingCount(Df, v.col)
                     /\ Range(rec.value_violations[v.col].invalid_values)
                        = {Df.rows[i][v.col][1] : i \in present(v.col)} \ v.values]_vars

\* C17 witness: check_validity has returned on a dataset with a record whose
\* age and gender are null beside a record whose age and gender are violations:
\* one violation is counted for each of the two columns.
C17_Witness ==
    /\ pc = "idle" /\ last.call = "check_validity" /\ last.raised = "none"
    /\ HasCol(Df, "patient_age") /\ HasCol(Df, "patient_gender")
    /\ \E i, j \in 1..len(Df) :
          /\ isnull(Df.rows[i]["patient_age"]) /\ isnull(Df.rows[i]["patient_gender"])
          /\ Df.rows[j]["patient_age"] = <<121>> /\ Df.rows[j]["patient_gender"] = <<"X">>
    /\ last.ret.range_violations["patient_age"].violations = 1
    /\ last.ret.value_violations["patient_gender"].violations = 1
    /\ last.ret.value_violations["patient_gender"].invalid_values = <<"X">>

\* C18: when check_accuracy returns, for every analysed column whose Q1 and Q3
\* are one value c, the entry has IQR 0 and both fences at c, its count is the
\* number of non-null values other than c, and the call has appended one LOW
\* Accuracy recommendation for the column naming the bounds c-c if there is
\* such a value (none if the column is constant).
C18_CollapsedFences ==
    [][Returns("check_accuracy", "accuracy", "score") =>
         \A c \in DOMAIN validation_results'["accuracy"].outliers :
            LET e == validation_results'["accuracy"].outliers[c]
                vals == Values(Df, c)
                others == {i \in 1..Len(vals) : 100 * vals[i] # e.Q1}
                mine == SelectSeq(Appended,
                           LAMBDA x : x.category = "Accuracy" /\ x.subject = c)
            IN e.Q1 = e.Q3 =>
                  /\ e.IQR = 0
                  /\ e.lower_bound = e.Q1 /\ e.upper_bound = e.Q1
                  /\ e.count = Cardinality(others)
                  /\ Len(mine) = IF others # {} THEN 1 ELSE 0
                  /\ \A k \in 1..Len(mine) :
                        /\ mine[k].severity = "LOW"
                        /\ mine[k].count = e.count
                        /\ mine[k].detail = <<e.Q1, e.Q1>>]_vars

\* C18 witness: check_accuracy has returned on the values 1, 1, 1, 1, 100:
\* Q1 = Q3 = 1.00, IQR 0, one outlier, and the one recommendation names the
\* bounds 1.00-1.00.
C18_Witness ==
    /\ pc = "idle" /\ last.call = "check_accuracy" /\ last.raised = "none"
    /\ Values(Df, "patient_waittime") = <<1, 1, 1, 1, 100>>
    /\ last.ret.outliers["patient_waittime"].Q1 = 100
    /\ last.ret.outliers["patient_waittime"].Q3 = 100
    /\ last.ret.outliers["patient_waittime"].IQR = 0
    /\ last.ret.outliers["patient_waittime"].count = 1
    /\ recommendations = <<Rec("LOW", "Accuracy", "patient_waittime", 1, <<100, 100>>)>>

\* What the check method of a dimension does on the validator as it stands.
CheckEffect(dim) ==
    CASE dim = "completeness" ->
            check_completeness(Df, config, validation_results, recommendations)
      [] dim = "uniqueness" -> check_uniqueness(Df, validation_results, recommendations)
      [] dim = "validity" ->
            check_validity(Df, config, validation_results, recommendations)
      [] dim = "consistency" ->
            check_consistency(Df, now, validation_results, recommendations)
      [] dim = "accuracy" -> check_accuracy(Df, config, validation_results, recommendations)

\* C19: when run_all_validations has failed because a check method raised,
\* no 'overall' entry is stored, and every check method that does not itself
\* raise on the dataset has been executed and has stored its record.
C19_FailingCheckIsolated ==
    (pc = "idle" /\ calls = 1 /\ last.call = "run_all_validations"
     /\ last.raised # "none") =>
        /\ "overall" \notin DOMAIN validation_results
        /\ \A dim \in Range(Dimensions) :
              CheckEffect(dim).raised = "none" => dim \in DOMAIN validation_results

\* C20: when check_completeness returns, the call has appended one HIGH
\* Completeness recommendation for each column that is critical and has a
\* missing value, however many, and nothing else; and missing_by_column has,
\* for every column of the dataset, the number of its nulls, that number as a
\* percentage of the records to the nearest hundredth (NaN on 0 records), and
\* whether the column is critical.
C20_CompletenessRecs ==
    [][Returns("check_completeness", "completeness", "uniqueness") =>
         LET n == len(Df)
             rec == validation_results'["completeness"]
             nulls(c) == Cardinality({i \in 1..n : isnull(Df.rows[i][c])})
             critical(c) == c \in config.critical_columns
             flagged == {c \in Range(Df.columns) : critical(c) /\ nulls(c) > 0}
         IN /\ DOMAIN rec.missing_by_column = Range(Df.columns)
            /\ Len(Appended) = Cardinality(flagged)
            /\ \A c \in Range(Df.columns) :
                  LET e == rec.missing_by_column[c]
                      err == e.percentage * n - nulls(c) * 100 * 100
                      mine == SelectSeq(Appended, LAMBDA x : x.subject = c)
                  IN /\ e.count = nulls(c)
                     /\ e.is_critical = critical(c)
                     /\ IF n = 0 THEN e.percentage = NaN
                        ELSE 2 * err <= n /\ -2 * err <= n
                     /\ Len(mine) = IF c \in flagged THEN 1 ELSE 0
                     /\ \A k \in 1..Len(mine) :
                           /\ mine[k].severity = "HIGH"
                           /\ mine[k].category = "Completeness"
                           /\ mine[k].count = nulls(c)]_vars

\* C20 witness: check_completeness has returned on a fresh validator whose
\* dataset has two nulls in the critical columns date and patient_age and two
\* in the non-critical patient_gender: two recommendations, one per critical
\* column.
C20_Witness ==
    /\ pc = "idle" /\ calls = 1 /\ last.call = "check_completeness"
    /\ HasCol(Df, "date") /\ HasCol(Df, "patient_gender")
    /\ last.ret.missing_by_column["date"].count = 2
    /\ last.ret.missing_by_column["patient_age"].count = 2
    /\ last.ret.missing_by_column["patient_gender"].count = 2
    /\ Len(recommendations) = 2
    /\ recommendations[1].subject = "date" /\ recommendations[2].subject = "patient_age"

\* The recommendations of one category, in list order.
OfCategory(cat) == SelectSeq(recommendations, LAMBDA r : r.category = cat)

\* The recommendation list ends with the entries of s.
EndsWith(s) ==
    /\ Len(s) <= Len(recommendations)
    /\ SubSeq(recommendations, Len(recommendations) - Len(s) + 1, Len(recommendations)) = s

\* The first call on the validator, running or ended.
FirstCall == calls = 1

\* The number of records equal in every field to another record.
TwinCount ==
    Cardinality({i \in 1..len(Df) : \E j \in 1..len(Df) : j # i /\ Df.rows[j] = Df.rows[i]})

\* The number of records sharing their (patient_id, date) pair with another.
KeyTwinCount ==
    Cardinality({i \in 1..len(Df) : \E j \in 1..len(Df) :
        /\ j # i
        /\ Df.rows[j]["patient_id"] = Df.rows[i]["patient_id"]
        /\ Df.rows[j]["date"] = Df.rows[i]["date"]})

\* What check_uniqueness is to append: the MEDIUM entry if there are exact
\* duplicates, then the HIGH entry if there are id+date duplicates.
UniquenessRecsDue ==
    (IF TwinCount > 0
     THEN <<Rec("MEDIUM", "Uniqueness", "exact_duplicates", TwinCount, <<>>)>>
     ELSE <<>>)
    \o (IF KeyTwinCount > 0
        THEN <<Rec("HIGH", "Uniqueness", "id_date_duplicates", KeyTwinCount, <<>>)>>
        ELSE <<>>)

\* C21: once check_uniqueness has returned in the first call on a validator,
\* the Uniqueness recommendations are: one MEDIUM entry iff a record has an
\* exact twin, then one HIGH entry iff a record shares its (patient_id, date)
\* pair with another; and after every returned call of check_uniqueness the
\* list ends with just these entries.
C21_UniquenessRecs ==
    /\ (FirstCall /\ "uniqueness" \in DOMAIN validation_results) =>
          OfCategory("Uniqueness") = UniquenessRecsDue
    /\ (pc = "idle" /\ last.call = "check_uniqueness" /\ last.raised = "none") =>
          /\ EndsWith(UniquenessRecsDue)
          /\ last.ret.duplicate_records.id_date_duplicates.count = KeyTwinCount

\* C21 witness: check_uniqueness has returned on a fresh validator over two
\* records that share identifier and date and differ elsewhere: the HIGH
\* entry alone; (the MEDIUM entry before the HIGH one is C28's witness).
C21_Witness ==
    /\ pc = "idle" /\ FirstCall /\ last.call = "check_uniqueness" /\ last.raised = "none"
    /\ TwinCount = 0 /\ KeyTwinCount = 2
    /\ recommendations = <<Rec("HIGH", "Uniqueness", "id_date_duplicates", 2, <<>>)>>

\* C28: whenever a uniqueness record is stored, its id_date_duplicates count
\* is at least its exact_duplicates count; and on a dataset that has the
\* columns patient_id and date every MEDIUM Uniqueness recommendation in the
\* list is directly followed by the HIGH id+date one.
C28_KeyDupsDominate ==
    /\ "uniqueness" \in DOMAIN validation_results =>
          validation_results["uniqueness"].duplicate_records.id_date_duplicates.count
          >= validation_results["uniqueness"].duplicate_records.exact_duplicates.count
    /\ (HasCol(Df, "patient_id") /\ HasCol(Df, "date")) =>
          \A i \in 1..Len(recommendations) :
             (recommendations[i].category = "Uniqueness"
              /\ recommendations[i].severity = "MEDIUM") =>
                /\ i < Len(recommendations)
                /\ recommendations[i + 1].category = "Uniqueness"
                /\ recommendations[i + 1].severity = "HIGH"
                /\ recommendations[i + 1].subject = "id_date_duplicates"

\* C28 witness: check_uniqueness has returned on a fresh validator over two
\* identical records: both counts are 2, the MEDIUM entry is followed by the
\* HIGH one.
C28_Witness ==
    /\ pc = "idle" /\ FirstCall /\ last.call = "check_uniqueness" /\ last.raised = "none"
    /\ last.ret.duplicate_records.exact_duplicates.count = 2
    /\ last.ret.duplicate_records.id_date_duplicates.count = 2
    /\ Len(recommendations) = 2
    /\ recommendations[1].severity = "MEDIUM" /\ recommendations[2].severity = "HIGH"

\* Every value of the date column is null or a string the parser accepts.
AllDatesParse == \A i \in 1..len(Df) : DateParses(Df.rows[i]["date"])

\* C22: whenever a call of check_validity has ended on a dataset with a date
\* column, it has returned and stored the validity record; the record has
\* status Valid and violations 0 if every date parses, and then the call has
\* appended no HIGH entry; it has status Invalid and violations 'Unknown'
\* otherwise, and then the list ends with the one HIGH Validity entry.
C22_DateFormat ==
    (pc = "idle" /\ last.call = "check_validity" /\ HasCol(Df, "date")) =>
        /\ last.raised = "none"
        /\ "validity" \in DOMAIN validation_results
        /\ validation_results["validity"] = last.ret
        /\ IF AllDatesParse
           THEN /\ last.ret.format_violations["date"]
                   = [violations |-> <<0>>, status |-> "Valid"]
                /\ FirstCall =>
                      \A i \in 1..Len(recommendations) :
                          recommendations[i].severity # "HIGH"
           ELSE /\ last.ret.format_violations["date"]
                   = [violations |-> <<>>, status |-> "Invalid"]
                /\ EndsWith(<<Rec("HIGH", "Validity", "date_format", 0, <<>>)>>)
                /\ FirstCall =>
                      Len(SelectSeq(recommendations,
                                    LAMBDA r : r.severity = "HIGH")) = 1

\* The number of records whose date parses to a day after the instant t.
DatesAfter(t) ==
    Cardinality({i \in 1..len(Df) :
        /\ notna(Df.rows[i]["date"])
        /\ Df.rows[i]["date"][1] \in DOMAIN DateValue
        /\ DateValue[Df.rows[i]["date"][1]] > t})

\* What check_consistency is to append when it ran at the instant t.
ConsistencyRecsDue(t) ==
    IF DatesAfter(t) > 0
    THEN <<Rec("HIGH", "Consistency", "future_dates", DatesAfter(t), <<>>)>>
    ELSE <<>>

\* C23: a call of check_consistency on a dataset with records and a date
\* column returns, unparseable dates or not; its future_dates count is the
\* number of records whose date parses to a day strictly after the instant of
\* the call, and the list then ends with one HIGH Consistency entry if the
\* count is positive (the only Consistency entry after a first call) and has
\* none if it is 0; and a consistency score computed from a record whose
\* count is 0, by the score method or by run_all_validations, is 100.
C23_TemporalConsistency ==
    /\ (pc = "idle" /\ last.call = "check_consistency" /\ HasCol(Df, "date")) =>
          /\ len(Df) > 0 => last.raised = "none"
          /\ last.raised = "none" =>
                /\ last.ret.temporal_consistency["future_dates"].count
                   = DatesAfter(last.now)
                /\ EndsWith(ConsistencyRecsDue(last.now))
                /\ FirstCall => OfCategory("Consistency") = ConsistencyRecsDue(last.now)
    /\ (/\ pc = "idle" /\ last.call = "_calculate_consistency_score"
        /\ "consistency" \in DOMAIN validation_results
        /\ last.raised = "none"
        /\ HasCol(Df, "date")
        /\ validation_results["consistency"].temporal_consistency["future_dates"].count
           = 0) =>
          last.ret.score = 100 * last.ret.unit
    /\ (RunReturned /\ HasCol(Df, "date") /\ DatesAfter(last.now) = 0) =>
          validation_results["overall"].dimension_scores["consistency"]
          = 100 * ScoreUnit(len(Df))

\* C23 witness: check_consistency has returned, at the instant 2, on a dataset
\* holding an unparseable date and a date of day 3: the count is 1 and the
\* HIGH entry is in the list.
C23_Witness ==
    /\ pc = "idle" /\ FirstCall /\ last.call = "check_consistency"
    /\ last.raised = "none" /\ last.now = 2
    /\ HasCol(Df, "date")
    /\ \E i, j \in 1..len(Df) :
          /\ Df.rows[i]["date"] = <<"not-a-date">>
          /\ Df.rows[j]["date"] = <<"2031-01-01">>
    /\ last.ret.temporal_consistency["future_dates"].count = 1
    /\ recommendations = <<Rec("HIGH", "Consistency", "future_dates", 1, <<>>)>>

\* The future_dates count of the stored consistency record (0 without one).
StoredFutureDates ==
    LET tc == validation_results["consistency"].temporal_consistency
    IN IF "future_dates" \in DOMAIN tc THEN tc["future_dates"].count ELSE 0

\* C24: every Consistency recommendation is the future-dates one, so none is
\* appended for high_sat_high_wait or pediatric_in_adult_dept whatever their
\* counts; and a consistency score computed from a stored record, by the score
\* method or by run_all_validations, is max(0, 100 - future_dates count /
\* records x 100).
C24_AdvisoryOnly ==
    /\ \A i \in 1..Len(recommendations) :
          recommendations[i].category = "Consistency" =>
             recommendations[i].subject = "future_dates"
    /\ (pc = "idle" /\ last.call = "check_consistency" /\ last.raised = "none"
        /\ FirstCall) =>
          Len(recommendations) = IF StoredFutureDates > 0 THEN 1 ELSE 0
    /\ (/\ pc = "idle" /\ last.call = "_calculate_consistency_score"
        /\ last.raised = "none" /\ "consistency" \in DOMAIN validation_results) =>
          last.ret.score
          = Max(0, 100 * last.ret.unit - StoredFutureDates * 100 * 100 * 2)
    /\ RunReturned =>
          validation_results["overall"].dimension_scores["consistency"]
          = Max(0, 100 * ScoreUnit(len(Df)) - StoredFutureDates * 100 * 100 * 2)

\* C24 witness: a run has returned on a dataset with a record of satisfaction
\* 10 after a wait of 300 and a child referred to Gastroenterology: both
\* advisory counts are positive, there is no Consistency recommendation and
\* the consistency score is 100.
C24_Witness ==
    /\ RunReturned
    /\ validation_results["consistency"].logical_consistency["high_sat_high_wait"].count > 0
    /\ validation_results["consistency"].cross_field_consistency
           ["pediatric_in_adult_dept"].count > 0
    /\ OfCategory("Consistency") = <<>>
    /\ validation_results["overall"].dimension_scores["consistency"]
       = 100 * ScoreUnit(len(Df))

\* The non-null cells of column c of the validator's frame.
NonNull(c) == {i \in 1..len(Df) : notna(Df.rows[i][c])}

\* The fences of column c in eighths: Q1 - 1.5 IQR and Q3 + 1.5 IQR, the
\* quartiles being taken over the non-null values.
LowerFencex8(c) == 5 * Q1x4(Values(Df, c)) - 3 * Q3x4(Values(Df, c))
UpperFencex8(c) == 5 * Q3x4(Values(Df, c)) - 3 * Q1x4(Values(Df, c))

\* The non-null values of column c strictly outside its fences.
OutsideFences(c) ==
    {i \in NonNull(c) :
        \/ 8 * Df.rows[i][c][1] < LowerFencex8(c)
        \/ 8 * Df.rows[i][c][1] > UpperFencex8(c)}

\* The configured numeric columns that are present with a non-null value.
Analysed == {c \in Range(config.numeric_columns) : HasCol(Df, c) /\ NonNull(c) # {}}

\* The analysed columns with an outlier, in configuration order.
WithOutliers ==
    SelectSeq(config.numeric_columns, LAMBDA c : c \in Analysed /\ OutsideFences(c) # {})

\* C25: when check_accuracy has returned, the outlier entries are those of
\* the configured numeric columns present with a non-null value (none for an
\* absent or all-null column); each count is the number of non-null values
\* strictly outside the fences, each percentage is the count over the
\* column's non-null count x 100 to the nearest hundredth; and the list ends
\* with one LOW Accuracy entry for each column whose count is at least 1, in
\* configuration order, these being all the entries after a first call.
C25_OutlierCensus ==
    (pc = "idle" /\ last.call = "check_accuracy" /\ last.raised = "none") =>
        /\ DOMAIN last.ret.outliers = Analysed
        /\ \A c \in Analysed :
              LET e == last.ret.outliers[c]
                  count == Cardinality(OutsideFences(c))
                  err == e.percentage * Cardinality(NonNull(c)) - count * 100 * 100
              IN /\ e.count = count
                 /\ 2 * err <= Cardinality(NonNull(c))
                 /\ -2 * err <= Cardinality(NonNull(c))
        /\ Len(WithOutliers) <= Len(recommendations)
        /\ \A k \in 1..Len(WithOutliers) :
              LET r == recommendations[Len(recommendations) - Len(WithOutliers) + k]
              IN /\ r.severity = "LOW" /\ r.category = "Accuracy"
                 /\ r.subject = WithOutliers[k]
                 /\ r.count = Cardinality(OutsideFences(WithOutliers[k]))
        /\ FirstCall => Len(recommendations) = Len(WithOutliers)

\* C25 witness: check_accuracy has returned on five records whose waits are
\* null, 1, 1, 1, 100: one outlier, 25.00 percent of the four non-null values
\* (it is 20 percent of the records), one LOW entry; no entry for the absent
\* patient_sat_score.
C25_Witness ==
    /\ pc = "idle" /\ FirstCall /\ last.call = "check_accuracy" /\ last.raised = "none"
    /\ len(Df) = 5
    /\ Values(Df, "patient_waittime") = <<1, 1, 1, 100>>
    /\ last.ret.outliers["patient_waittime"].count = 1
    /\ last.ret.outliers["patient_waittime"].percentage = 25 * 100
    /\ "patient_sat_score" \notin DOMAIN last.ret.outliers
    /\ Len(recommendations) = 1 /\ recommendations[1].subject = "patient_waittime"

\* The outliers counted over all the analysed columns of the validator's frame.
TotalOutliers ==
    LET cols == SelectSeq(config.numeric_columns, LAMBDA c : c \in Analysed)
    IN SumSeq([k \in 1..Len(cols) |-> Cardinality(OutsideFences(cols[k]))])

\* C27: with the accuracy record stored, _calculate_accuracy_score returns
\* max(0, 100 - 0.5 x total outliers / total record count x 100): the
\* outliers are summed over the analysed columns and the denominator is the
\* number of records, nulls included, not a column's non-null count.
C27_AccuracyScore ==
    (/\ pc = "idle" /\ last.call = "_calculate_accuracy_score" /\ last.raised = "none"
     /\ "accuracy" \in DOMAIN validation_results) =>
        /\ last.ret.unit = 100 * 2 * len(Df)
        /\ last.ret.score =
              Max(0, 100 * last.ret.unit - TotalOutliers * 100 * 100)

\* C27 witness: five records, waits null, 0, 1, 1, 1 and ages 40, 120, 40,
\* 40, 40: one outlier among the four non-null waits and one among the five
\* ages, and the score returned is 100 - 0.5 x 2 / 5 x 100 = 80.
C27_Witness ==
    /\ pc = "idle" /\ last.call = "_calculate_accuracy_score" /\ last.raised = "none"
    /\ "accuracy" \in DOMAIN validation_results
    /\ len(Df) = 5
    /\ Values(Df, "patient_waittime") = <<0, 1, 1, 1>>
    /\ Values(Df, "patient_age") = <<40, 120, 40, 40, 40>>
    /\ TotalOutliers = 2
    /\ last.ret.score = 80 * last.ret.unit

\* The (record, column) pairs of the validator's frame that violate a
\* configured range or a configured value set; a null cell violates neither.
ViolatingCells ==
    {x \in (1..len(Df)) \X Range(Df.columns) :
        /\ notna(Df.rows[x[1]][x[2]])
        /\ \/ \E r \in Range(config.expected_ranges) :
                 /\ r.col = x[2]
                 /\ (Df.rows[x[1]][x[2]][1] < r.min \/ Df.rows[x[1]][x[2]][1] > r.max)
           \/ \E v \in Range(config.valid_values) :
                 /\ v.col = x[2]
                 /\ Df.rows[x[1]][x[2]][1] \notin v.values}

\* C26: with the validity record stored, _calculate_validity_score returns
\* max(0, 100 - violations / record count x 100), the violations being the
\* (record, column) pairs outside a configured range or value set, so that a
\* record violating k columns counts k times; whether the dates parse does
\* not enter.
C26_ValidityScore ==
    (/\ pc = "idle" /\ last.call = "_calculate_validity_score" /\ last.raised = "none"
     /\ "validity" \in DOMAIN validation_results) =>
        /\ last.ret.unit = 100 * 2 * len(Df)
        /\ last.ret.score =
              Max(0, 100 * last.ret.unit - Cardinality(ViolatingCells) * 100 * 100 * 2)

\* C26 witness: three records, one of them with age 121 and gender X and
\* another with a date that does not parse: the date status stored is
\* Invalid, two violations are counted for the one record, and the score
\* returned is 100 - 2 / 3 x 100, one third of 100.
C26_Witness ==
    /\ pc = "idle" /\ last.call = "_calculate_validity_score" /\ last.raised = "none"
    /\ "validity" \in DOMAIN validation_results
    /\ len(Df) = 3
    /\ ~AllDatesParse
    /\ validation_results["validity"].format_violations["date"].status = "Invalid"
    /\ ViolatingCells = {<<2, "patient_age">>, <<2, "patient_gender">>}
    /\ 3 * last.ret.score = 100 * last.ret.unit

\* main() of the master script has ended, by a return or by an exception.
MasterEnded == master.pc = "returned"

\* C29: the stages are started in the fixed order, none twice; when main()
\* has ended after a failed database setup it has returned False and started
\* no other stage; when it has ended after a successful one, each of the
\* four stages has been started, once, in order, whatever the later stages
\* reported; and a stage that raised has the result False, main() having
\* gone on past it.
C29_StageSequencing ==
    /\ Len(master.started) <= Len(Stages)
    /\ \A i \in 1..Len(master.started) : master.started[i] = Stages[i]
    /\ (MasterEnded /\ ~master.results["database_setup"]) =>
          master.result = "False" /\ master.started = <<"database_setup">>
    /\ (MasterEnded /\ master.results["database_setup"]) => master.started = Stages
    /\ \A i \in 1..Len(master.log) :
          master.log[i] = "error" =>
              /\ ~master.results[Stages[i]]
              /\ i > 1 => (master.pc # "returned" \/ Len(master.log) = Len(Stages))

\* C29 witness: main() has returned after the validation stage raised and the
\* reports stage reported failure: the visualizations were still started.
C29_Witness ==
    /\ MasterEnded /\ master.result = "False"
    /\ master.log = <<"completed", "error", "failed", "completed">>
    /\ master.started = Stages
    /\ master.results["visualizations"] /\ ~master.results["data_quality"]

\* The later stages that failed.
LaterFailed == {s \in Range(Stages) \ {"database_setup"} : ~master.results[s]}

\* C30: when main() has returned after a successful database setup, it has
\* returned True if and only if at least 3 of the 4 results are True, that is
\* if and only if at most one of the three later stages failed, and the
\* summary has been generated.
C30_Verdict ==
    (/\ MasterEnded /\ master.result \in {"True", "False"}
     /\ master.results["database_setup"]) =>
        /\ master.result = "True" <=>
              Cardinality({s \in Range(Stages) : master.results[s]}) >= 3
        /\ master.result = "True" <=> Cardinality(LaterFailed) <= 1
        /\ master.result = "False" <=> Cardinality(LaterFailed) >= 2
        /\ master.summary

\* C30 witness: main() has returned True with the reports stage alone failed
\* (3 of 4), the summary generated.
C30_Witness ==
    /\ MasterEnded /\ master.result = "True"
    /\ LaterFailed = {"performance_reports"}
    /\ master.results["database_setup"]
    /\ master.summary

====
